---- MODULE Spec2Model ----
(***************************************************************************)
(* Model of the football quiz generator: the retrying Gemini client        *)
(* (gemini_client.py), the pydantic validator and the JSON append store    *)
(* (data_manager.py) and the menu loop that drives them (app.py).          *)
(***************************************************************************)
EXTENDS Integers, Sequences, FiniteSets, TLC

(***************************************************************************)
(* Python values.  A value is a tagged record: None, a number, a str, a    *)
(* list or a dict with str keys.  A str is either plain characters         *)
(* (tag "str") or the JSON serialisation of a value (tag "text"): json     *)
(* text is never equal to the value it encodes, and only json text parses. *)
(***************************************************************************)
None == [t |-> "null"]
Num(n) == [t |-> "num", v |-> n]
Str(s) == [t |-> "str", v |-> s]
Lst(q) == [t |-> "list", v |-> q]
Obj(f) == [t |-> "obj", v |-> f]

\* json.dumps / json.dump: the text that serialises x.
json_dumps(x) == [t |-> "text", v |-> x]

IsStr(x) == x.t \in {"str", "text"}
IsDict(x) == x.t = "obj"
IsList(x) == x.t = "list"

\* Python truthiness (`if x:` / `not x`).
Truthy(x) ==
  CASE x.t = "null" -> FALSE
    [] x.t = "num" -> x.v # 0
    [] x.t = "str" -> x.v # ""
    [] x.t = "text" -> TRUE
    [] x.t = "list" -> Len(x.v) > 0
    [] x.t = "obj" -> DOMAIN x.v # {}

\* The outcome of evaluating an expression: a value, or an exception.
Ok(x) == [r |-> "ok", v |-> x]
Raise(e) == [r |-> "raise", e |-> e]

\* json.loads / json.load: only json text parses; other characters raise
\* JSONDecodeError, and a value that is not a str raises TypeError.
json_loads(x) ==
  CASE x.t = "text" -> Ok(x.v)
    [] x.t = "str" -> Raise("JSONDecodeError")
    [] OTHER -> Raise("TypeError")

\* d.get(key, default) on a value d.
DictGet(d, key, default) ==
  IF ~IsDict(d) THEN Raise("AttributeError")
  ELSE IF key \in DOMAIN d.v THEN Ok(d.v[key]) ELSE Ok(default)

\* x[0] on a value x: the first element of a list, the first character of
\* a str; everything else (empty sequence, dict with str keys, None, number)
\* raises.
Index0(x) ==
  CASE x.t = "list" -> IF Len(x.v) > 0 THEN Ok(x.v[1]) ELSE Raise("IndexError")
    [] x.t = "str" -> IF x.v # "" THEN Ok(Str("c")) ELSE Raise("IndexError")
    [] x.t = "text" -> Ok(Str("c"))
    [] x.t = "obj" -> Raise("KeyError")
    [] OTHER -> Raise("TypeError")

\* {**base, **over}: the keys of both, over's values winning.
DictMerge(base, over) ==
  [k \in DOMAIN base \cup DOMAIN over |->
     IF k \in DOMAIN over THEN over[k] ELSE base[k]]

(***************************************************************************)
(* data_manager.py: the pydantic schema and validate_quiz_structure.       *)
(***************************************************************************)
Langs == {"es", "ca", "en"}
OptionIds == {"A", "B", "C", "D"}

\* Field(pattern="^[A-D]$") on a str field.
MatchesAD(x) == x.t = "str" /\ x.v \in OptionIds

\* MultilingualText: a dict with str fields es, ca, en (extra keys ignored).
MultilingualText_ok(x) ==
  /\ IsDict(x)
  /\ \A l \in Langs : l \in DOMAIN x.v /\ IsStr(x.v[l])
MultilingualText_dump(x) == Obj([l \in Langs |-> x.v[l]])

\* Option: a dict with id matching ^[A-D]$ and a MultilingualText text.
Option_ok(x) ==
  /\ IsDict(x)
  /\ "id" \in DOMAIN x.v /\ MatchesAD(x.v["id"])
  /\ "text" \in DOMAIN x.v /\ MultilingualText_ok(x.v["text"])
\* A dump that leaves the text of an option out.
Option_dump_idOnly(x) == Obj([k \in {"id"} |-> x.v["id"]])
Option_dump(x) ==
  Obj([k \in {"id", "text"} |->
         IF k = "id" THEN x.v["id"] ELSE MultilingualText_dump(x.v["text"])])

StrFields == {"quiz_id", "category", "query_topic", "source"}
TextFields == {"question", "correct_answer_text"}
QuizFields == StrFields \cup TextFields \cup {"options", "correct_option_id"}

\* QuizItem(**data) succeeds: every field present with its type.
QuizItem_ok(f) ==
  /\ QuizFields \subseteq DOMAIN f
  /\ \A k \in StrFields : IsStr(f[k])
  /\ \A k \in TextFields : MultilingualText_ok(f[k])
  /\ IsList(f["options"])
  /\ \A i \in 1..Len(f["options"].v) : Option_ok(f["options"].v[i])
  /\ MatchesAD(f["correct_option_id"])

\* model_dump(): the declared fields only, nested models dumped.
QuizItem_dump(f) ==
  Obj([k \in QuizFields |->
         CASE k \in StrFields -> f[k]
           [] k \in TextFields -> MultilingualText_dump(f[k])
           [] k = "options" ->
                Lst([i \in 1..Len(f["options"].v) |-> Option_dump(f["options"].v[i])])
           [] OTHER -> f[k]])

\* A validator that hands back any mapping unchecked.
validate_unchecked(data) ==
  IF ~IsDict(data) THEN Raise("TypeError") ELSE Ok(data)

\* validate_quiz_structure(data): QuizItem(**data) needs a mapping (TypeError
\* otherwise, which the except clause does not catch); ValidationError gives
\* None; success gives the dumped model.
validate_quiz_structure(data) ==
  IF ~IsDict(data) THEN Raise("TypeError")
  ELSE IF QuizItem_ok(data.v) THEN Ok(QuizItem_dump(data.v))
  ELSE Ok(None)

(***************************************************************************)
(* gemini_client.py: one iteration of the retry loop of call_gemini_api.   *)
(***************************************************************************)
MAX_RETRIES == 5

\* Each step of the chain: the exception so far, or the step on the value.
GetCandidates(result) ==
  IF result.r = "raise" THEN result
  ELSE DictGet(result.v, "candidates", Lst(<<Obj(<<>>)>>))
First(x) == IF x.r = "raise" THEN x ELSE Index0(x.v)
GetContent(cand) ==
  IF cand.r = "raise" THEN cand ELSE DictGet(cand.v, "content", Obj(<<>>))
GetParts(content) ==
  IF content.r = "raise" THEN content
  ELSE DictGet(content.v, "parts", Lst(<<Obj(<<>>)>>))
GetText(part) == IF part.r = "raise" THEN part ELSE DictGet(part.v, "text", None)

\* result.get('candidates', [{}])[0].get('content', {}).get('parts', [{}])[0].get('text')
ExtractText(result) ==
  GetText(First(GetParts(GetContent(First(GetCandidates(result))))))

\* `if json_text: return json.loads(json_text) else: return None`
ReturnPayload(json_text) ==
  IF json_text.r = "raise" THEN json_text
  ELSE IF Truthy(json_text.v) THEN json_loads(json_text.v) ELSE Ok(None)

\* What requests.post / raise_for_status / response.json() give for one
\* HTTP exchange h: a transport error and a non-2xx status raise
\* RequestException, a body that is not JSON raises JSONDecodeError.
ResponseJson(h) ==
  CASE h.k = "transport" -> Raise("RequestException")
    [] h.k = "status" -> Raise("RequestException")
    [] OTHER -> json_loads(h.body)

\* The body of the try block after the sleep: Ok(v) is `return v`, a raise
\* is caught by one of the three except clauses and the loop goes on.
TryBody(h) == ReturnPayload(ExtractText(ResponseJson(h)))

\* A backoff that starts at one time unit (1, 2, 4, 8).
Delay_from_one(attempt) == 2 ^ (attempt - 1)
\* delay = 2 ** attempt
Delay(attempt) == 2 ^ attempt

\* The sleeps performed on entering iteration `attempt`.
SleepBefore(attempt) == IF attempt > 0 THEN <<Delay(attempt)>> ELSE <<>>

(***************************************************************************)
(* gemini_client.py: generate_quiz, after call_gemini_api has returned.    *)
(***************************************************************************)
\* str(uuid.uuid4()): the n-th identifier generated by this process.
UuidNames == <<"uuid-1", "uuid-2", "uuid-3", "uuid-4", "uuid-5", "uuid-6",
               "uuid-7", "uuid-8">>
uuid4(n) == Str(UuidNames[n])

\* The dict display of one loop iteration: the three metadata keys first,
\* then **raw_quiz_data, which needs a mapping.
final_quiz_data(n, category, topic, raw_quiz_data) ==
  IF ~IsDict(raw_quiz_data) THEN Raise("TypeError")
  ELSE Ok(Obj(DictMerge([quiz_id |-> uuid4(n), category |-> Str(category),
                         query_topic |-> Str(topic)],
                        raw_quiz_data.v)))

\* generate_quiz given the client's result: None when it is falsy or not a
\* list; TypeError out of the loop when an element is not a mapping;
\* otherwise the list of augmented elements, identifiers first, first + 1, ...
Assembled(made) ==
  IF \E j \in DOMAIN made : made[j].r = "raise" THEN Raise("TypeError")
  ELSE Ok(Lst([j \in DOMAIN made |-> made[j].v]))
generate_quiz(first, category, topic, raw_quiz_array) ==
  IF ~Truthy(raw_quiz_array) \/ ~IsList(raw_quiz_array) THEN Ok(None)
  ELSE Assembled([j \in 1..Len(raw_quiz_array.v) |->
                    final_quiz_data(first + j - 1, category, topic,
                                    raw_quiz_array.v[j])])

(***************************************************************************)
(* data_manager.py: the store file.  A file is absent or holds characters  *)
(* (a str value: json text, or characters that do not parse).              *)
(***************************************************************************)
Absent == [t |-> "absent"]

\* A load that takes the store for empty whatever the file holds.
load_as_empty(f, readOk) == [v |-> Lst(<<>>), warned |-> FALSE]

\* load_existing_data: the list it returns and whether it warned.  readOk
\* is whether open/read succeed (IOError otherwise).
load_existing_data(f, readOk) ==
  IF f = Absent THEN [v |-> Lst(<<>>), warned |-> FALSE]
  ELSE IF ~readOk THEN [v |-> Lst(<<>>), warned |-> TRUE]
  ELSE IF json_loads(f).r = "raise" THEN [v |-> Lst(<<>>), warned |-> TRUE]
  ELSE [v |-> json_loads(f).v, warned |-> FALSE]

\* An insert at the front instead of an append.
ListPrepend(all_quizzes, new_quiz) ==
  IF IsList(all_quizzes) THEN Ok(Lst(<<new_quiz>> \o all_quizzes.v))
  ELSE Raise("AttributeError")

\* all_quizzes.append(new_quiz): only a list has append.
ListAppend(all_quizzes, new_quiz) ==
  IF IsList(all_quizzes) THEN Ok(Lst(Append(all_quizzes.v, new_quiz)))
  ELSE Raise("AttributeError")

\* What is left of a file whose rewrite stopped part-way: open(..., 'w') has
\* truncated it, and a proper prefix of a JSON array never parses.
Truncated == Str("[")

\* A write of the new record alone, over whatever was there.
WriteFile_newOnly(f, all_quizzes, w) ==
  CASE w = "ok" -> json_dumps(Lst(<<all_quizzes.v[Len(all_quizzes.v)]>>))
    [] w = "open" -> f
    [] OTHER -> Truncated

\* open(QUIZ_DATA_FILE, 'w') + json.dump: w = "ok" writes the whole list;
\* w = "open" is an IOError from open (file untouched); w = "dump" is an
\* IOError while writing (file truncated, partly written).
WriteFile(f, all_quizzes, w) ==
  CASE w = "ok" -> json_dumps(all_quizzes)
    [] w = "open" -> f
    [] OTHER -> Truncated

\* Steps 2 and 3 of save_quiz_data, given what step 1 loaded: the file
\* afterwards, the messages printed, and the exception that escapes (if any).
WriteBack(f, warn, all_quizzes, w) ==
  IF all_quizzes.r = "raise"
    THEN [file |-> f, log |-> warn, exc |-> all_quizzes.e]
    ELSE [file |-> WriteFile(f, all_quizzes.v, w),
          log |-> warn \o (IF w = "ok" THEN <<"saved">> ELSE <<"write_error">>),
          exc |-> "none"]
AppendAndWrite(f, loaded, new_quiz, w) ==
  WriteBack(f, IF loaded.warned THEN <<"load_warning">> ELSE <<>>,
            ListAppend(loaded.v, new_quiz), w)

\* save_quiz_data(new_quiz) on file f.
save_quiz_data(f, new_quiz, readOk, w) ==
  AppendAndWrite(f, load_existing_data(f, readOk), new_quiz, w)

(***************************************************************************)
(* gemini_client.py: the retry loop as a state: the loop index, the HTTP   *)
(* requests issued, the sleeps performed, and the return value once the    *)
(* call has returned.                                                      *)
(***************************************************************************)
LoopStart ==
  [attempt |-> 0, posts |-> 0, sleeps |-> <<>>, done |-> FALSE, ret |-> None]

\* One iteration of `for attempt in range(MAX_RETRIES)` with HTTP exchange h;
\* after the last iteration the function falls through to `return None`.
\* A loop that gives up at the first failed attempt.
AfterTry_giveUp(st, out) ==
  [attempt |-> st.attempt + 1, posts |-> st.posts + 1,
   sleeps |-> st.sleeps \o SleepBefore(st.attempt),
   done |-> TRUE, ret |-> IF out.r = "ok" THEN out.v ELSE None]
AfterTry(st, out) ==
  IF out.r = "ok"
    THEN [attempt |-> st.attempt, posts |-> st.posts + 1,
          sleeps |-> st.sleeps \o SleepBefore(st.attempt),
          done |-> TRUE, ret |-> out.v]
    ELSE [attempt |-> st.attempt + 1, posts |-> st.posts + 1,
          sleeps |-> st.sleeps \o SleepBefore(st.attempt),
          done |-> st.attempt + 1 >= MAX_RETRIES, ret |-> None]
LoopIteration(st, h) == AfterTry(st, TryBody(h))

\* call_gemini_api run against the exchanges hs, one per request it issues.
RECURSIVE RunLoop(_, _)
RunLoop(st, hs) ==
  IF st.done \/ hs = <<>> THEN st
  ELSE RunLoop(LoopIteration(st, Head(hs)), Tail(hs))

\* A client that goes to the loop without looking at API_KEY.
call_without_check(api_key, hs) == RunLoop(LoopStart, hs)

\* `if not API_KEY: return None` comes before anything else.
call_gemini_api(api_key, hs) ==
  IF ~api_key THEN [LoopStart EXCEPT !.done = TRUE] ELSE RunLoop(LoopStart, hs)

(***************************************************************************)
(* app.py: upload_bulk_data on the chosen file; postOk is whether the      *)
(* POST succeeds.  It only reads the file.                                 *)
(***************************************************************************)
UploadResult(outcome, data, kept, sent) ==
  [outcome |-> outcome, data |-> data, kept |-> kept, sent |-> sent]

\* The loop over quiz_data and the POST, given each element's validation.
\* data: the elements read; kept: which of them passed validation; sent:
\* the list that was POSTed.
UploadValidated(data, validated, postOk) ==
  IF \E j \in DOMAIN validated : validated[j].r = "raise"
    THEN UploadResult("unexpected_error", data, [j \in DOMAIN validated |-> FALSE], <<>>)
  ELSE IF \A j \in DOMAIN validated : ~Truthy(validated[j].v)
    THEN UploadResult("no_valid_quizzes", data, [j \in DOMAIN validated |-> FALSE], <<>>)
  ELSE UploadResult(IF postOk THEN "uploaded" ELSE "upload_failed", data,
                    [j \in DOMAIN validated |-> Truthy(validated[j].v)],
                    IF postOk THEN SelectSeq([j \in DOMAIN validated |-> validated[j].v], Truthy)
                    ELSE <<>>)
UploadParsed(quiz_data, postOk) ==
  IF quiz_data.r = "raise" THEN UploadResult("invalid_json", <<>>, <<>>, <<>>)
  ELSE IF ~IsList(quiz_data.v) THEN UploadResult("not_an_array", <<>>, <<>>, <<>>)
  ELSE UploadValidated(quiz_data.v.v,
                       [j \in 1..Len(quiz_data.v.v) |->
                          validate_quiz_structure(quiz_data.v.v[j])],
                       postOk)
upload_bulk_data(f, postOk) ==
  IF f = Absent THEN UploadResult("file_not_found", <<>>, <<>>, <<>>)
  ELSE UploadParsed(json_loads(f), postOk)

(***************************************************************************)
(* Bounds and the inputs drawn from them.                                  *)
(***************************************************************************)
\* Identifiers a run may generate.
MaxIds == 3
\* Elements in one provider payload.
MaxBatch == 3

\* app.py CATEGORIES (one of the six menu entries) and the topic prompt.
Categories == {"Match"}
Topics == {"Clasico 2024"}

Without(f, k) == [x \in DOMAIN f \ {k} |-> f[x]]
With(f, k, val) == [x \in DOMAIN f \cup {k} |-> IF x = k THEN val ELSE f[x]]

Text == Obj([es |-> Str("hola"), ca |-> Str("bon dia"), en |-> Str("hello")])
Opt(id) == Obj([id |-> Str(id), text |-> Text])
FourOptions == Lst(<<Opt("A"), Opt("B"), Opt("C"), Opt("D")>>)

\* A provider element of the shape SYSTEM_PROMPT asks for.
GoodRaw ==
  Obj([question |-> Text, options |-> FourOptions, correct_option_id |-> Str("A"),
       correct_answer_text |-> Text, source |-> Str("uefa.com")])
RawFields == DOMAIN GoodRaw.v

\* correct_option_id outside A-D.
BadIdRaw == Obj(With(GoodRaw.v, "correct_option_id", Str("E")))
\* An element that carries the metadata keys itself, and a key of its own.
OverridingRaw ==
  Obj(DictMerge(GoodRaw.v,
                [quiz_id |-> Str("provider-id"), category |-> Str("Hacked"),
                 query_topic |-> Str("provider-topic"), extra |-> Num(7)]))
\* Elements with a required field missing, at the top or nested.
MissingTop == {Obj(Without(GoodRaw.v, k)) : k \in RawFields}
MissingNested ==
  {Obj(With(GoodRaw.v, k, Obj(Without(Text.v, l)))) :
     k \in {"question", "correct_answer_text"}, l \in Langs}
  \cup {Obj(With(GoodRaw.v, "options", Lst(<<Opt("A"), Obj(Without(Opt("B").v, k))>>))) :
          k \in {"id", "text"}}
  \cup {Obj(With(GoodRaw.v, "options",
                 Lst(<<Obj([id |-> Str("A"), text |-> Obj(Without(Text.v, l))])>>))) :
          l \in Langs}
\* Elements with a field of the wrong type.
WrongType ==
  {Obj(With(GoodRaw.v, "source", None)),
   Obj(With(GoodRaw.v, "options", Text)),
   Obj(With(GoodRaw.v, "question", Str("who?")))}
\* Options that are not the four A-D of the generation contract.
OddOptions ==
  {Obj(With(GoodRaw.v, "options", Lst(<<Opt("A"), Opt("B"), Opt("C")>>))),
   Obj(With(GoodRaw.v, "options", Lst(<<Opt("B"), Opt("B"), Opt("C"), Opt("D")>>)))}

CoreItems == {GoodRaw, BadIdRaw, OverridingRaw}
RawItems ==
  CoreItems \cup MissingTop \cup MissingNested \cup WrongType \cup OddOptions
    \cup {Num(1), Str("text"), None}

SeqsOf(S, n) == [1..n -> S]
\* What the inner JSON text may decode to: a list of one element of any
\* kind, lists of core elements, a good list with an element that is not an
\* object, and values that are not a non-empty list.
Payloads ==
  {Lst(<<x>>) : x \in RawItems}
    \cup UNION {{Lst(q) : q \in SeqsOf(CoreItems, n)} : n \in 2..MaxBatch}
    \cup {Lst(<<GoodRaw, Num(1)>>), Lst(<<>>), None, GoodRaw}

\* The response envelope around a text part.
Envelope(text) ==
  Obj([candidates |->
         Lst(<<Obj([content |-> Obj([parts |-> Lst(<<Obj([text |-> text])>>)])])>>)])
\* Bodies that parse as JSON with candidates[0].content.parts[0].text absent.
PathAbsentKey ==
  {Obj(<<>>),
   Obj([candidates |-> Lst(<<Obj(<<>>)>>)]),
   Obj([candidates |-> Lst(<<Obj([content |-> Obj(<<>>)])>>)]),
   Obj([candidates |-> Lst(<<Obj([content |-> Obj([parts |-> Lst(<<Obj(<<>>)>>)])])>>)])}
PathAbsentEmptyList ==
  {Obj([candidates |-> Lst(<<>>)]),
   Obj([candidates |-> Lst(<<Obj([content |-> Obj([parts |-> Lst(<<>>)])])>>)])}
PathAbsentNoText == {Envelope(None), Envelope(Str(""))}
PathAbsent == PathAbsentKey \cup PathAbsentEmptyList \cup PathAbsentNoText
\* Other JSON bodies that are not the envelope.
OddEnvelopes ==
  {Lst(<<>>), None, Obj([candidates |-> None]),
   Obj([candidates |-> Lst(<<Obj([content |-> None])>>)]),
   Envelope(Str("not json")), Envelope(Num(5))}

Envelopes ==
  {Envelope(json_dumps(p)) : p \in Payloads} \cup PathAbsent \cup OddEnvelopes

\* One HTTP exchange: a transport error, a non-2xx status, or a body.
Transport == [k |-> "transport"]
BadStatus == [k |-> "status"]
Body(b) == [k |-> "body", body |-> b]
Exchanges ==
  {Transport, BadStatus, Body(Str("<html>"))}
    \cup {Body(json_dumps(e)) : e \in Envelopes}

\* The exchanges one call may meet: a single one, failures followed by a
\* good payload, or MAX_RETRIES transport failures.
AllTransport == [j \in 1..MAX_RETRIES |-> Transport]
GoodBody == Body(json_dumps(Envelope(json_dumps(Lst(<<GoodRaw>>)))))
ExchangeRuns ==
  {<<h>> : h \in Exchanges}
    \cup {<<Transport, GoodBody>>, <<BadStatus, Body(Str("<html>")), GoodBody>>,
          AllTransport}

\* What the store file may hold when the program starts.
OldRecord ==
  QuizItem_dump(DictMerge([quiz_id |-> Str("uuid-0"), category |-> Str("Venue"),
                           query_topic |-> Str("Camp Nou")], GoodRaw.v))
InitialFiles ==
  {Absent, json_dumps(Lst(<<OldRecord>>)), Str("{not json"), json_dumps(Obj(<<>>))}

\* What a file named at the upload prompt may hold.
UploadFiles ==
  {Absent, Str("{not json"), json_dumps(Obj(<<>>)),
   json_dumps(Lst(<<Num(1)>>)), json_dumps(Lst(<<GoodRaw>>)),
   json_dumps(Lst(<<OldRecord, GoodRaw>>))}

(***************************************************************************)
(* State.                                                                  *)
(***************************************************************************)
VARIABLES
  pc,          \* where main is: start, menu, batch, batch_done, uploaded, exited, crashed
  API_KEY,     \* gemini_client.API_KEY is non-empty
  environ_key, \* os.environ has GEMINI_API_KEY after load_dotenv()
  file,        \* football_quiz_data.json
  nextId,      \* the next identifier uuid4 gives
  req,         \* the request being served: category, topic, first identifier
  ret,         \* what call_gemini_api returned
  batch,       \* raw_quizzes, the list generate_quiz returned
  i,           \* position of main's loop in batch
  base,        \* the file when the batch started
  accepted,    \* the records handed to save_quiz_data in this batch
  faults,      \* a read or a write failed during this batch
  log,         \* what the last step printed
  upload,      \* outcome of the last upload_bulk_data
  exc,         \* the exception that ended the process
  loop,        \* call_gemini_api's loop state
  last,        \* the exchange of its last iteration
  seen,        \* the kinds of exchange met in this call
  cand,        \* a candidate handed to validate_quiz_structure
  vout,        \* what it gave
  vagain,      \* what validating that output again gave
  writers,     \* two processes inside save_quiz_data: position, record, list
  overlap      \* one of them loaded while the other was between load and write

vars == <<pc, API_KEY, environ_key, file, nextId, req, ret, batch, i, base,
          accepted, faults, log, upload, exc, loop, last, seen, cand, vout,
          vagain, writers, overlap>>

NoReq == [category |-> "", topic |-> "", first |-> 0]
NoUpload == UploadResult("none", <<>>, <<>>, <<>>)
NoExchange == [k |-> "none"]

apiVars == <<loop, last, seen>>
validatorVars == <<cand, vout, vagain>>
storeVars == <<writers, overlap>>

\* Processes that run save_quiz_data on the same file.
Writers == {1, 2}
NoWriters ==
  [p \in Writers |-> [pc |-> "idle", new_quiz |-> None, all_quizzes |-> None]]
batchVars == <<req, ret, batch, i, base, accepted, faults>>

\* The state when the modules are imported and load_dotenv() has run:
\* gemini_client reads GEMINI_API_KEY at import, before load_dotenv(), so
\* API_KEY sees the shell's variable only.
Init ==
  /\ pc = "start"
  /\ \E shell \in BOOLEAN, dotenv \in BOOLEAN :
       /\ API_KEY = shell
       /\ environ_key = (shell \/ dotenv)
  /\ file \in InitialFiles
  /\ nextId = 1
  /\ req = NoReq /\ ret = None /\ batch = <<>> /\ i = 0
  /\ base = Absent /\ accepted = <<>> /\ faults = FALSE
  /\ log = <<>> /\ upload = NoUpload /\ exc = "none"
  /\ loop = LoopStart /\ last = NoExchange /\ seen = {}
  /\ cand = None /\ vout = Ok(None) /\ vagain = Ok(None)
  /\ writers = NoWriters /\ overlap = FALSE

\* main, up to the menu loop: the early check of the environment.
main_start ==
  /\ pc = "start"
  /\ pc' = IF environ_key THEN "menu" ELSE "exited"
  /\ log' = IF environ_key THEN <<>> ELSE <<"critical_no_key">>
  /\ UNCHANGED <<API_KEY, environ_key, file, nextId, upload, exc>>
  /\ UNCHANGED <<batchVars, apiVars, validatorVars, storeVars>>

\* choice '0'
Exit ==
  /\ pc = "menu"
  /\ pc' = "exited"
  /\ log' = <<"goodbye">>
  /\ UNCHANGED <<API_KEY, environ_key, file, nextId, upload, exc>>
  /\ UNCHANGED <<batchVars, apiVars, validatorVars, storeVars>>

\* a choice that is no category, or an empty topic
InvalidInput ==
  /\ pc = "menu"
  /\ log' = <<"try_again">>
  /\ UNCHANGED <<pc, API_KEY, environ_key, file, nextId, upload, exc>>
  /\ UNCHANGED <<batchVars, apiVars, validatorVars, storeVars>>

\* choice '7': upload_bulk_data on the default file or on a named one
Upload ==
  /\ pc = "menu"
  /\ \E f \in {file} \cup UploadFiles, postOk \in BOOLEAN :
       \E done \in {upload_bulk_data(f, postOk)} :
         /\ upload' = done
         /\ log' = <<done.outcome>>
  /\ pc' = "uploaded"
  /\ UNCHANGED <<API_KEY, environ_key, file, nextId, exc>>
  /\ UNCHANGED <<batchVars, apiVars, validatorVars, storeVars>>

\* a category and a topic: generate_quiz, then main's `if raw_quizzes`
Request ==
  /\ pc = "menu"
  /\ \E category \in Categories, topic \in Topics, hs \in ExchangeRuns :
       \E run \in {call_gemini_api(API_KEY, hs)} :
         \E made \in {generate_quiz(nextId, category, topic, run.ret)} :
           /\ run.done
           /\ IsList(run.ret) => nextId + Len(run.ret.v) - 1 <= MaxIds
           /\ req' = [category |-> category, topic |-> topic, first |-> nextId]
           /\ ret' = run.ret
           /\ base' = file
           /\ IF made.r = "raise"
                THEN /\ pc' = "crashed" /\ exc' = made.e
                     /\ log' = <<>>
                     /\ UNCHANGED <<batch, i, nextId>>
              ELSE IF Truthy(made.v)
                THEN /\ pc' = "batch" /\ batch' = made.v.v /\ i' = 1
                     /\ nextId' = nextId + Len(made.v.v)
                     /\ log' = <<>>
                     /\ UNCHANGED exc
              ELSE /\ pc' = "batch_done"
                   /\ log' = (IF API_KEY THEN <<>> ELSE <<"no_api_key">>)
                             \o <<"could_not_generate">>
                   /\ UNCHANGED <<batch, i, nextId, exc>>
  /\ UNCHANGED <<API_KEY, environ_key, file, upload, accepted, faults>>
  /\ UNCHANGED <<apiVars, validatorVars, storeVars>>

\* one iteration of main's loop over raw_quizzes: validate, then save
process_item ==
  /\ pc = "batch"
  /\ \E validated_quiz \in {validate_quiz_structure(batch[i])},
        more \in {IF i < Len(batch) THEN "batch" ELSE "batch_done"} :
       IF validated_quiz.r = "raise"
         THEN /\ pc' = "crashed" /\ exc' = validated_quiz.e
              /\ log' = <<>>
              /\ UNCHANGED <<file, accepted, faults>>
       ELSE IF Truthy(validated_quiz.v)
         THEN \E readOk \in (IF file = Absent THEN {TRUE} ELSE BOOLEAN),
                 w \in {"ok", "open", "dump"} :
                \E saved \in {save_quiz_data(file, validated_quiz.v, readOk, w)} :
                  /\ file' = saved.file
                  /\ log' = <<"preview">> \o saved.log
                  /\ accepted' = Append(accepted, validated_quiz.v)
                  /\ faults' = (faults \/ ~readOk \/ w # "ok")
                  /\ exc' = saved.exc
                  /\ pc' = IF saved.exc = "none" THEN more ELSE "crashed"
       ELSE /\ log' = <<"validation_error", "skipping_save">>
            /\ pc' = more
            /\ UNCHANGED <<file, accepted, faults, exc>>
  /\ i' = i + 1
  /\ UNCHANGED <<API_KEY, environ_key, nextId, req, ret, batch, base, upload>>
  /\ UNCHANGED <<apiVars, validatorVars, storeVars>>

\* back to display_menu for the next request
next_request ==
  /\ pc \in {"batch_done", "uploaded"}
  /\ pc' = "menu"
  /\ req' = NoReq /\ ret' = None /\ batch' = <<>> /\ i' = 0
  /\ base' = Absent /\ accepted' = <<>> /\ faults' = FALSE
  /\ log' = <<>> /\ upload' = NoUpload
  /\ UNCHANGED <<API_KEY, environ_key, file, nextId, exc>>
  /\ UNCHANGED <<apiVars, validatorVars, storeVars>>

Next ==
  \/ main_start
  \/ Exit
  \/ InvalidInput
  \/ Upload
  \/ Request
  \/ process_item
  \/ next_request

Spec == Init /\ [][Next]_vars

(***************************************************************************)
(* call_gemini_api on its own, one loop iteration per step.                *)
(***************************************************************************)
\* The kind of an exchange, as the retry policy sees it.
Kind(h) ==
  CASE h.k = "transport" -> "transport"
    [] h.k = "status" -> "status"
    [] json_loads(h.body).r = "raise" -> "not_json"
    [] json_loads(h.body).v \in PathAbsent -> "path_absent"
    [] OTHER -> "json"

InitApi ==
  /\ pc = "idle"
  /\ API_KEY \in BOOLEAN
  /\ environ_key = API_KEY
  /\ file = Absent
  /\ nextId = 1
  /\ req = NoReq /\ ret = None /\ batch = <<>> /\ i = 0
  /\ base = Absent /\ accepted = <<>> /\ faults = FALSE
  /\ log = <<>> /\ upload = NoUpload /\ exc = "none"
  /\ loop = LoopStart /\ last = NoExchange /\ seen = {}
  /\ cand = None /\ vout = Ok(None) /\ vagain = Ok(None)
  /\ writers = NoWriters /\ overlap = FALSE

notApi == <<API_KEY, environ_key, file, nextId, req, batch, i, base, accepted,
            faults, upload, exc, cand, vout, vagain, writers, overlap>>

\* entry: `if not API_KEY: return None`
start_call ==
  /\ pc = "idle"
  /\ \E st \in {call_gemini_api(API_KEY, <<>>)} :
       /\ loop' = st
       /\ pc' = IF st.done THEN "returned" ELSE "loop"
       /\ ret' = st.ret
  /\ log' = IF API_KEY THEN <<>> ELSE <<"no_api_key">>
  /\ UNCHANGED <<last, seen>>
  /\ UNCHANGED notApi

\* one iteration: sleep, post, classify
attempt ==
  /\ pc = "loop"
  /\ \E h \in Exchanges :
       \E st \in {LoopIteration(loop, h)} :
         /\ loop' = st
         /\ last' = h
         /\ seen' = seen \cup {Kind(h)}
         /\ pc' = IF st.done THEN "returned" ELSE "loop"
         /\ ret' = st.ret
         /\ log' = (IF loop.attempt > 0 THEN <<"retrying">> ELSE <<>>)
                   \o (IF st.done /\ st.attempt >= MAX_RETRIES
                         THEN <<"final_attempt_failed">> ELSE <<>>)
  /\ UNCHANGED notApi

\* the caller takes the result; the next call starts afresh
end_call ==
  /\ pc = "returned"
  /\ pc' = "idle"
  /\ loop' = LoopStart /\ last' = NoExchange /\ seen' = {}
  /\ ret' = None /\ log' = <<>>
  /\ UNCHANGED notApi

NextApi ==
  \/ start_call
  \/ attempt
  \/ end_call

SpecApi == InitApi /\ [][NextApi]_vars

(***************************************************************************)
(* validate_quiz_structure on its own: one candidate, validated once.      *)
(***************************************************************************)
\* A candidate as generate_quiz assembles it from a good element.
FullCandidate == final_quiz_data(1, "Match", "Clasico 2024", GoodRaw).v

\* Complete candidates with keys outside the schema in the nested models,
\* an empty options list, and each of the other correct_option_id values.
ExtraNested ==
  {Obj(With(FullCandidate.v, "question", Obj(With(Text.v, "fr", Str("salut"))))),
   Obj(With(FullCandidate.v, "options",
            Lst(<<Obj(With(Opt("A").v, "hint", Num(1))), Opt("B"), Opt("C"), Opt("D")>>))),
   Obj(With(FullCandidate.v, "options", Lst(<<>>)))}
    \cup {Obj(With(FullCandidate.v, "correct_option_id", Str(c))) : c \in {"B", "C", "D"}}

\* Untyped structured data: assembled and bare provider elements, a
\* candidate with each field missing, null or a number, and values that are
\* not mappings.
Candidates ==
  {final_quiz_data(1, "Match", "Clasico 2024", r).v : r \in {x \in RawItems : IsDict(x)}}
    \cup RawItems
    \cup {Obj(Without(FullCandidate.v, k)) : k \in QuizFields}
    \cup {Obj(With(FullCandidate.v, k, None)) : k \in QuizFields}
    \cup {Obj(With(FullCandidate.v, k, Num(3))) : k \in QuizFields}
    \cup {Lst(<<>>), Lst(<<FullCandidate>>), json_dumps(FullCandidate), Num(0)}
    \cup ExtraNested

InitValidate ==
  /\ pc = "candidate"
  /\ cand \in Candidates
  /\ vout = Ok(None) /\ vagain = Ok(None)
  /\ writers = NoWriters /\ overlap = FALSE
  /\ API_KEY = TRUE /\ environ_key = TRUE
  /\ file = Absent
  /\ nextId = 1
  /\ req = NoReq /\ ret = None /\ batch = <<>> /\ i = 0
  /\ base = Absent /\ accepted = <<>> /\ faults = FALSE
  /\ log = <<>> /\ upload = NoUpload /\ exc = "none"
  /\ loop = LoopStart /\ last = NoExchange /\ seen = {}

\* validate_quiz_structure(cand)
validate ==
  /\ pc = "candidate"
  /\ \E out \in {validate_quiz_structure(cand)} :
       /\ vout' = out
       /\ log' = IF out.r = "ok" /\ out.v = None THEN <<"validation_error">> ELSE <<>>
  /\ pc' = "validated"
  /\ UNCHANGED <<cand, vagain, API_KEY, environ_key, file, nextId, upload, exc>>
  /\ UNCHANGED <<batchVars, apiVars, storeVars>>

\* validate_quiz_structure on a record it returned, as upload_bulk_data
\* does with the records main saved
revalidate ==
  /\ pc = "validated"
  /\ vout.r = "ok" /\ Truthy(vout.v)
  /\ \E out \in {validate_quiz_structure(vout.v)} :
       /\ vagain' = out
       /\ log' = IF out.r = "ok" /\ out.v = None THEN <<"validation_error">> ELSE <<>>
  /\ pc' = "revalidated"
  /\ UNCHANGED <<cand, vout, API_KEY, environ_key, file, nextId, upload, exc>>
  /\ UNCHANGED <<batchVars, apiVars, storeVars>>

NextValidate ==
  \/ validate
  \/ revalidate

SpecValidate == InitValidate /\ [][NextValidate]_vars

(***************************************************************************)
(* save_quiz_data run by two processes on the same file, one statement     *)
(* per step: the load, the append to the list in memory, the write.        *)
(***************************************************************************)
\* The validated record process p saves.
NewRecord(p) ==
  QuizItem_dump(final_quiz_data(p, "Match", "Clasico 2024", GoodRaw).v.v)

InitStore ==
  /\ pc = "store"
  /\ file \in InitialFiles
  /\ base = file
  /\ writers = [p \in Writers |->
                  [pc |-> "idle", new_quiz |-> NewRecord(p), all_quizzes |-> None]]
  /\ overlap = FALSE
  /\ API_KEY = TRUE /\ environ_key = TRUE
  /\ nextId = 1
  /\ req = NoReq /\ ret = None /\ batch = <<>> /\ i = 0
  /\ accepted = <<>> /\ faults = FALSE
  /\ log = <<>> /\ upload = NoUpload /\ exc = "none"
  /\ loop = LoopStart /\ last = NoExchange /\ seen = {}
  /\ cand = None /\ vout = Ok(None) /\ vagain = Ok(None)

notStore == <<pc, API_KEY, environ_key, nextId, req, ret, batch, i, base,
              accepted, upload, loop, last, seen, cand, vout, vagain>>

\* all_quizzes = load_existing_data()
store_load(p) ==
  /\ writers[p].pc = "idle"
  /\ \E readOk \in (IF file = Absent THEN {TRUE} ELSE BOOLEAN) :
       \E loaded \in {load_existing_data(file, readOk)} :
         /\ writers' = [writers EXCEPT ![p].pc = "loaded",
                                       ![p].all_quizzes = loaded.v]
         /\ log' = IF loaded.warned THEN <<"load_warning">> ELSE <<>>
         /\ faults' = (faults \/ ~readOk)
  /\ overlap' = (overlap \/ \E q \in Writers \ {p} :
                               writers[q].pc \in {"loaded", "appended"})
  /\ UNCHANGED <<file, exc>>
  /\ UNCHANGED notStore

\* all_quizzes.append(new_quiz)
store_append(p) ==
  /\ writers[p].pc = "loaded"
  /\ \E out \in {ListAppend(writers[p].all_quizzes, writers[p].new_quiz)} :
       IF out.r = "raise"
         THEN /\ writers' = [writers EXCEPT ![p].pc = "crashed"]
              /\ exc' = out.e
         ELSE /\ writers' = [writers EXCEPT ![p].pc = "appended",
                                            ![p].all_quizzes = out.v]
              /\ UNCHANGED exc
  /\ log' = <<>>
  /\ UNCHANGED <<file, faults, overlap>>
  /\ UNCHANGED notStore

\* with open(QUIZ_DATA_FILE, 'w') as f: json.dump(all_quizzes, f, indent=4)
store_write(p) ==
  /\ writers[p].pc = "appended"
  /\ \E w \in {"ok", "open", "dump"} :
       /\ file' = WriteFile(file, writers[p].all_quizzes, w)
       /\ log' = IF w = "ok" THEN <<"saved">> ELSE <<"write_error">>
       /\ faults' = (faults \/ w # "ok")
  /\ writers' = [writers EXCEPT ![p].pc = "done"]
  /\ UNCHANGED <<exc, overlap>>
  /\ UNCHANGED notStore

NextStore ==
  \E p \in Writers :
    \/ store_load(p)
    \/ store_append(p)
    \/ store_write(p)

SpecStore == InitStore /\ [][NextStore]_vars

(***************************************************************************)
(* Claims about call_gemini_api (checked under SpecApi).                   *)
(***************************************************************************)

C2_PathAbsentOneAttempt ==
  (pc = "returned" /\ seen = {"path_absent"}) =>
    loop.posts = 1 /\ loop.sleeps = <<>> /\ loop.ret = None

\* C11: with API_KEY empty the call never enters the loop: it has returned
\* None with no request issued and no sleep performed.
C11_NoCredentialNoRequest ==
  ~API_KEY =>
    /\ pc # "loop"
    /\ loop.posts = 0 /\ loop.sleeps = <<>>
    /\ pc = "returned" => ret = None /\ loop.ret = None /\ last = NoExchange

C11_Witness ==
  pc = "returned" /\ ~API_KEY /\ log = <<"no_api_key">> /\ loop.posts = 0

\* Exchanges of the three transient failure kinds: transport error, non-2xx
\* status, a body that is not JSON, an inner text that is not JSON.
TransientExchanges ==
  {Transport, BadStatus, Body(Str("<html>")),
   Body(json_dumps(Envelope(Str("not json"))))}

\* Exchanges whose inner text parses, each with the payload it encodes.
ParsablePairs ==
  {[h |-> Body(json_dumps(Envelope(json_dumps(p)))), p |-> p] : p \in Payloads}

\* C16: one attempt is one more request, never a sixth; the k-th attempt
\* (k >= 2) sleeps 2^(k-1) first and the first sleeps nothing; a transient
\* failure leads to another attempt while fewer than 5 were made and to
\* None after the fifth; a parsable payload ends the call with that payload;
\* a call that has returned makes no further exchange.
C16_Step ==
  /\ pc = "returned" => pc' = "idle" /\ last' = NoExchange /\ loop' = LoopStart
  /\ pc = "loop" =>
       /\ loop'.posts = loop.posts + 1 /\ loop'.posts <= 5
       /\ loop'.sleeps =
            loop.sleeps \o (IF loop.posts + 1 >= 2 THEN <<2 ^ loop.posts>> ELSE <<>>)
       /\ last' \in TransientExchanges =>
            IF loop.posts + 1 < 5 THEN pc' = "loop"
            ELSE pc' = "returned" /\ ret' = None
       /\ \A x \in ParsablePairs :
            last' = x.h => pc' = "returned" /\ ret' = x.p /\ loop'.ret = x.p
Persisted(f) == IF f.t = "text" /\ IsList(f.v) THEN f.v.v ELSE <<>>

IsPrefix(a, b) == Len(a) <= Len(b) /\ SubSeq(b, 1, Len(a)) = a

Range(q) == {q[j] : j \in 1..Len(q)}

\* A multilingual text with a language missing.
TextLacks(x) == IsDict(x) /\ ~(Langs \subseteq DOMAIN x.v)

\* An option with id or text missing, or its text with a language missing.
OptionLacks(x) ==
  IsDict(x) /\ (~({"id", "text"} \subseteq DOMAIN x.v) \/ TextLacks(x.v["text"]))

\* A mapping with a required QuizItem field missing, at the top or nested.
MissingRequired(c) ==
  /\ IsDict(c)
  /\ \/ ~(QuizFields \subseteq DOMAIN c.v)
     \/ \E k \in TextFields \cap DOMAIN c.v : TextLacks(c.v[k])
     \/ /\ "options" \in DOMAIN c.v
        /\ IsList(c.v["options"])
        /\ \E j \in 1..Len(c.v["options"].v) : OptionLacks(c.v["options"].v[j])

\* The normalized records of the candidates of q that pass validation, in order.
ValidOnes(q) ==
  SelectSeq([j \in 1..Len(q) |-> validate_quiz_structure(q[j]).v], Truthy)

\* C3: every candidate generate_quiz builds carries the fresh identifier,
\* the caller's category and the caller's topic.
C3_AssemblerValuesWin ==
  pc \in {"batch", "batch_done"} =>
    \A j \in 1..Len(batch) :
      /\ batch[j].v["quiz_id"] = uuid4(req.first + j - 1)
      /\ batch[j].v["category"] = Str(req.category)
      /\ batch[j].v["query_topic"] = Str(req.topic)

\* C4: a candidate with a required field missing is rejected: main's step
\* on it leaves the file and the saved records as they were and reports the
\* validation error, and upload_bulk_data keeps no such element.
C4_Step ==
  /\ (pc = "batch" /\ MissingRequired(batch[i])) =>
       /\ file' = file
       /\ accepted' = accepted
       /\ log' = <<"validation_error", "skipping_save">>
  /\ pc' = "uploaded" =>
       \A j \in 1..Len(upload'.data) :
         MissingRequired(upload'.data[j]) => ~upload'.kept[j]
C4_MissingFieldRejected == [][C4_Step]_vars

C4_Witness ==
  /\ pc \in {"batch", "batch_done"}
  /\ i > 1
  /\ MissingRequired(batch[i - 1])
  /\ log = <<"validation_error", "skipping_save">>
  /\ file = base

\* C5: while no read or write fails, the items of the batch processed so
\* far that passed validation are exactly the records saved, the file holds
\* the collection it held before the batch followed by them in batch order,
\* and a rejected item does not keep the loop from reaching the end.
C5_BatchGrowth ==
  (pc \in {"batch", "batch_done"} /\ batch # <<>> /\ ~faults) =>
    LET ok == ValidOnes(SubSeq(batch, 1, i - 1))
    IN /\ accepted = ok
       /\ file = IF ok = <<>> THEN base ELSE json_dumps(Lst(Persisted(base) \o ok))
       /\ pc = "batch_done" => i = Len(batch) + 1

C5_Witness ==
  /\ pc = "batch_done" /\ ~faults
  /\ Len(batch) = 3
  /\ batch[2].v["correct_option_id"] = Str("E")
  /\ Len(accepted) = 2
  /\ Len(Persisted(base)) = 1
  /\ Len(Persisted(file)) = 3

\* C6: starting from an absent file, after N saves whose writes succeeded,
\* load_existing_data gives exactly the N records saved, in order.
C6_RoundTrip ==
  (pc \in {"batch", "batch_done"} /\ base = Absent /\ ~faults) =>
    load_existing_data(file, TRUE) = [v |-> Lst(accepted), warned |-> FALSE]

C6_Witness ==
  /\ pc = "batch_done" /\ base = Absent /\ ~faults
  /\ Len(accepted) = 3
  /\ load_existing_data(file, TRUE).v = Lst(accepted)

\* C7: in every step the collection persisted before is a prefix of the
\* collection persisted after.
C7_AppendOnly == [][IsPrefix(Persisted(file), Persisted(file'))]_vars

\* C8: a file of malformed JSON changes only in a step whose append wrote
\* successfully.
C8_MalformedKept ==
  [][(file.t = "str" /\ file' # file) => "saved" \in Range(log')]_vars

\* C9: validate_quiz_structure returns, whatever the candidate.
C9_NeverRaises == pc = "validated" => vout.r = "ok"

\* C10: the process never ends on an exception.
C10_NoCrash == pc # "crashed"

\* C14: the records of the persisted collection have pairwise distinct
\* quiz_id values.
C14_IdentifiersDistinct ==
  \A a, b \in 1..Len(Persisted(file)) :
    (a # b /\ IsDict(Persisted(file)[a]) /\ IsDict(Persisted(file)[b])) =>
      Persisted(file)[a].v["quiz_id"] # Persisted(file)[b].v["quiz_id"]

\* C17: once main's startup check has passed, the client's API_KEY is set
\* and no request ends on the client's missing-credential message.
C17_ChecksAgree ==
  (pc \notin {"start", "exited"} /\ environ_key) =>
    API_KEY /\ "no_api_key" \notin Range(log)

(***************************************************************************)
(* Claims about the shape of accepted records (checked under               *)
(* SpecValidate).                                                          *)
(***************************************************************************)
\* validate_quiz_structure has accepted the candidate.
Accepted == pc = "validated" /\ vout.r = "ok" /\ vout.v # None

\* The option ids of a record, in order.
OptionIdsOf(rec) ==
  [j \in 1..Len(rec.v["options"].v) |-> rec.v["options"].v[j].v["id"].v]

\* C12: an accepted record has exactly four options, whose ids are four
\* distinct values covering A, B, C, D.
C12_FourDistinctOptions ==
  Accepted =>
    /\ Len(OptionIdsOf(vout.v)) = 4
    /\ Range(OptionIdsOf(vout.v)) = OptionIds

\* C13: the correct_option_id of an accepted record is one of A-D and is
\* the id of one of the record's own options.
C13_CorrectOptionPresent ==
  Accepted =>
    /\ MatchesAD(vout.v.v["correct_option_id"])
    /\ vout.v.v["correct_option_id"].v \in Range(OptionIdsOf(vout.v))

\* C15: validating the normalized output of an accepted candidate accepts
\* it and gives the same normalized output.
C15_Idempotent == pc = "revalidated" => vagain = vout

C15_Witness ==
  /\ pc = "revalidated"
  /\ IsDict(cand) /\ "extra" \in DOMAIN cand.v
  /\ vout.r = "ok" /\ IsDict(vout.v) /\ "extra" \notin DOMAIN vout.v
  /\ vagain = vout

(***************************************************************************)
(* Claims about concurrent writers (checked under SpecStore).              *)
(***************************************************************************)
\* Both calls have returned and no read or write failed.
BothSaved == (\A p \in Writers : writers[p].pc = "done") /\ ~faults

\* C18: when the two calls did not overlap the file holds the collection
\* it held before followed by both new records, in the order of the calls;
\* when one loaded before the other had written, it holds that collection
\* followed by only one of the two.
C18_LostAppend ==
  BothSaved =>
    IF overlap
      THEN Persisted(file) \in
             {Persisted(base) \o <<writers[p].new_quiz>> : p \in Writers}
      ELSE \E p, q \in Writers :
             /\ p # q
             /\ Persisted(file) =
                  Persisted(base) \o <<writers[p].new_quiz, writers[q].new_quiz>>

C18_Witness ==
  /\ BothSaved /\ overlap
  /\ Persisted(base) = <<OldRecord>>
  /\ Persisted(file) = <<OldRecord, writers[2].new_quiz>>
  /\ writers[1].new_quiz \notin Range(Persisted(file))
====
